---- MODULE Spec2Model ----
(***************************************************************************)
(* Model of the connection session manager, the useSocket hook of          *)
(* src/src/hooks/useSocket.ts.                                             *)
(*                                                                         *)
(* The hook's mutable state (React state, refs, the transports it created, *)
(* the timers it registered and the presence store it notifies) is kept    *)
(* in the variables below.  Every handler of the hook is an operator from  *)
(* a state record to a state record, written statement by statement from   *)
(* the source; an action runs the handlers one event dispatches and        *)
(* commits the resulting record.  All callbacks run serially on one event  *)
(* loop, so one dispatch is one atomic step.                               *)
(*                                                                         *)
(* The transport (socket.io-client) is the environment: it delivers        *)
(* 'connect', 'disconnect', 'connect_error', 'reconnect',                  *)
(* 'reconnect_attempt' and 'pong' to the listeners registered on it.       *)
(* connectionStartTime (useSocket.ts:66) only feeds a console.log and is   *)
(* left out.                                                               *)
(***************************************************************************)
EXTENDS Integers, Sequences, FiniteSets, TLC

\* ---------------------------------------------------------------- bounds
\* number of transports the hook may create (calls of io())
MaxSockets == 2
\* number of ensureConnected() waits that may be outstanding together
MaxCalls == 1
\* cap on reconnectAttempts in the guards (the code has no cap)
MaxCount == 11
\* the clock stops here
MaxNow == 2000
\* longest contact list given to sortContacts
MaxContacts == 3

\* ----------------------------------------------------- program constants
maxReconnectAttempts == 10
GoodBelowMs == 500
PoorBelowMs == 2000

\* clock increments, in ms
TickSteps == {700, 1300}

\* userToken is null or a non-empty string; the hook only tests it for
\* truthiness and (as an effect dependency) for change
TokenValues == {"null", "token"}
SocketIds == 1..MaxSockets
CallIds == 1..MaxCalls

\* the six events the effect binds handlers to
Handlers == {"connect", "disconnect", "connect_error", "reconnect",
             "reconnect_attempt", "pong"}

LocalReason == "io client disconnect"
RemoteReasons == {"transport close", "io server disconnect"}

VARIABLES
  phase,              \* "new" (no effect run yet), "mounted", "unmounted"
  userToken,          \* the userToken prop of the last effect run
  socketRef,          \* socketRef.current; 0 is null
  effectSocket,       \* the `socket` captured by the pending cleanup; 0 if none
  sockets,            \* the transports created so far
  numSockets,         \* how many transports io() has created
  isConnected,
  isConnecting,
  connectionQuality,
  reconnectAttempts,  \* reconnectAttempts.current
  lastPingTime,       \* lastPingTime.current
  pingIntervalRef,    \* "null", "live" (id of a running interval), "cleared"
  intervals,          \* number of running heartbeat intervals
  waits,              \* the ensureConnected() calls that still own a timer
                      \* or a listener
  onlineStatus,       \* last value given to offlineMessageService, or "unset"
  now,                \* Date.now()
  last,               \* the step that led here: operation, pre-state, outputs
  contacts,           \* the contact list of the message screen
  sortDone            \* sortContacts has run on the list as it is

vars == <<phase, userToken, socketRef, effectSocket, sockets, numSockets,
          isConnected, isConnecting, connectionQuality, reconnectAttempts,
          lastPingTime, pingIntervalRef, intervals, waits, onlineStatus,
          now, last, contacts, sortDone>>

\* inFlight: the timestamps of the pings emitted on the transport since it
\* connected and not answered yet
NoSocket == [connected |-> FALSE, active |-> FALSE, reconnecting |-> FALSE,
             listeners |-> {}, inFlight |-> {}]

NoWait == [state |-> "idle", sock |-> 0, timer |-> FALSE, listener |-> FALSE]

\* The state the handlers work on, with the outputs of the current step
\* (presence-store calls, pings emitted, promises resolved) empty and the
\* timestamp of the event payload being handled (-1 if there is none).
St ==
  [phase |-> phase, socketRef |-> socketRef, effectSocket |-> effectSocket,
   sockets |-> sockets, numSockets |-> numSockets,
   isConnected |-> isConnected, isConnecting |-> isConnecting,
   connectionQuality |-> connectionQuality,
   reconnectAttempts |-> reconnectAttempts, lastPingTime |-> lastPingTime,
   pingIntervalRef |-> pingIntervalRef, intervals |-> intervals,
   waits |-> waits, onlineStatus |-> onlineStatus,
   calls |-> <<>>, pings |-> 0, resolved |-> <<>>, data |-> -1]

\* socketRef.current?.connected
refConnected(st) ==
  st.socketRef # 0 /\ st.sockets[st.socketRef].connected

\* ------------------------------------------------------- React state
\* A state setter of an unmounted component is dropped by React.
setIsConnected(st, v) ==
  IF st.phase = "unmounted" THEN st ELSE [st EXCEPT !.isConnected = v]

setIsConnecting(st, v) ==
  IF st.phase = "unmounted" THEN st ELSE [st EXCEPT !.isConnecting = v]

setConnectionQuality(st, v) ==
  IF st.phase = "unmounted" THEN st ELSE [st EXCEPT !.connectionQuality = v]

\* offlineMessageService.setOnlineStatus(v)
setOnlineStatus(st, v) ==
  [st EXCEPT !.onlineStatus = v, !.calls = Append(@, v)]

\* if (pingIntervalRef.current) clearInterval(pingIntervalRef.current)
clearPingInterval(st) ==
  IF st.pingIntervalRef = "live"
  THEN [st EXCEPT !.intervals = @ - 1, !.pingIntervalRef = "cleared"]
  ELSE st

\* ------------------------------------------------------- the callbacks
\* checkConnectionQuality with the upper threshold taken inclusively
checkConnectionQuality_Inclusive(st, t) ==
  IF ~refConnected(st)
  THEN setConnectionQuality(st, "disconnected")
  ELSE LET pingTime == t - st.lastPingTime
       IN IF pingTime < GoodBelowMs THEN setConnectionQuality(st, "good")
          ELSE IF pingTime <= PoorBelowMs
          THEN setConnectionQuality(st, "poor")
          ELSE setConnectionQuality(st, "disconnected")

checkConnectionQuality(st, t) ==
  IF ~refConnected(st)
  THEN setConnectionQuality(st, "disconnected")
  ELSE LET pingTime == t - st.lastPingTime
       IN IF pingTime < GoodBelowMs THEN setConnectionQuality(st, "good")
          ELSE IF pingTime < PoorBelowMs THEN setConnectionQuality(st, "poor")
          ELSE setConnectionQuality(st, "disconnected")

sendPing(st, t) ==
  IF refConnected(st)
  THEN [st EXCEPT !.lastPingTime = t, !.pings = @ + 1,
                  !.sockets[st.socketRef].inFlight = @ \cup {t}]
  ELSE st

\* handleConnect without the reset of the attempt counter
handleConnect_NoReset(st, t) ==
  LET s1 == setIsConnected(st, TRUE)
      s2 == setIsConnecting(s1, FALSE)
      s3 == setConnectionQuality(s2, "good")
      s5 == setOnlineStatus(s3, TRUE)
      s6 == clearPingInterval(s5)
      s7 == [s6 EXCEPT !.pingIntervalRef = "live", !.intervals = @ + 1]
  IN sendPing(s7, t)

\* handleConnect without the immediate ping
handleConnect_NoPing(st, t) ==
  LET s1 == setIsConnected(st, TRUE)
      s2 == setIsConnecting(s1, FALSE)
      s3 == setConnectionQuality(s2, "good")
      s4 == [s3 EXCEPT !.reconnectAttempts = 0]
      s5 == setOnlineStatus(s4, TRUE)
      s6 == clearPingInterval(s5)
  IN [s6 EXCEPT !.pingIntervalRef = "live", !.intervals = @ + 1]

handleConnect(st, t) ==
  LET s1 == setIsConnected(st, TRUE)
      s2 == setIsConnecting(s1, FALSE)
      s3 == setConnectionQuality(s2, "good")
      s4 == [s3 EXCEPT !.reconnectAttempts = 0]
      s5 == setOnlineStatus(s4, TRUE)
      s6 == clearPingInterval(s5)
      s7 == [s6 EXCEPT !.pingIntervalRef = "live", !.intervals = @ + 1]
  IN sendPing(s7, t)

\* handleDisconnect without setConnectionQuality('disconnected')
handleDisconnect_NoQuality(st, reason) ==
  LET s1 == setIsConnected(st, FALSE)
      s3 == setOnlineStatus(s1, FALSE)
      s4 == IF s3.pingIntervalRef # "null"
            THEN [clearPingInterval(s3) EXCEPT !.pingIntervalRef = "null"]
            ELSE s3
  IN IF reason # LocalReason
     THEN LET s5 == setIsConnecting(s4, TRUE)
              s6 == [s5 EXCEPT !.reconnectAttempts = @ + 1]
          IN IF s6.reconnectAttempts >= maxReconnectAttempts
             THEN setIsConnecting(s6, FALSE)
             ELSE s6
     ELSE s4

\* handleDisconnect that treats every reason as a dropped connection
handleDisconnect_AnyReason(st, reason) ==
  LET s1 == setIsConnected(st, FALSE)
      s2 == setConnectionQuality(s1, "disconnected")
      s3 == setOnlineStatus(s2, FALSE)
      s4 == IF s3.pingIntervalRef # "null"
            THEN [clearPingInterval(s3) EXCEPT !.pingIntervalRef = "null"]
            ELSE s3
      s5 == setIsConnecting(s4, TRUE)
      s6 == [s5 EXCEPT !.reconnectAttempts = @ + 1]
  IN IF s6.reconnectAttempts >= maxReconnectAttempts
     THEN setIsConnecting(s6, FALSE)
     ELSE s6

handleDisconnect(st, reason) ==
  LET s1 == setIsConnected(st, FALSE)
      s2 == setConnectionQuality(s1, "disconnected")
      s3 == setOnlineStatus(s2, FALSE)
      s4 == IF s3.pingIntervalRef # "null"
            THEN [clearPingInterval(s3) EXCEPT !.pingIntervalRef = "null"]
            ELSE s3
  IN IF reason # LocalReason
     THEN LET s5 == setIsConnecting(s4, TRUE)
              s6 == [s5 EXCEPT !.reconnectAttempts = @ + 1]
          IN IF s6.reconnectAttempts >= maxReconnectAttempts
             THEN setIsConnecting(s6, FALSE)
             ELSE s6
     ELSE s4

\* handleConnectError that leaves isConnecting alone
handleConnectError_KeepConnecting(st) ==
  LET s1 == setIsConnected(st, FALSE)
      s3 == setConnectionQuality(s1, "disconnected")
      s4 == [s3 EXCEPT !.reconnectAttempts = @ + 1]
  IN setOnlineStatus(s4, FALSE)

\* handleConnectError that does not tell the presence store
handleConnectError_NoPresence(st) ==
  LET s1 == setIsConnected(st, FALSE)
      s2 == setIsConnecting(s1, FALSE)
      s3 == setConnectionQuality(s2, "disconnected")
  IN [s3 EXCEPT !.reconnectAttempts = @ + 1]

handleConnectError(st) ==
  LET s1 == setIsConnected(st, FALSE)
      s2 == setIsConnecting(s1, FALSE)
      s3 == setConnectionQuality(s2, "disconnected")
      s4 == [s3 EXCEPT !.reconnectAttempts = @ + 1]
  IN setOnlineStatus(s4, FALSE)

handleReconnect(st) ==
  setOnlineStatus(setIsConnecting(st, FALSE), TRUE)

handleReconnectAttempt(st) ==
  setIsConnecting(st, TRUE)

\* data.timestamp is falsy when it is 0; pingTime is only logged.
handlePong(st, t, data) ==
  LET pingTime == t - (IF data.timestamp # 0 THEN data.timestamp
                       ELSE st.lastPingTime)
  IN checkConnectionQuality(st, t)

\* resolve that settles a promise only with true
resolve_OnlyTrue(st, i, v) ==
  IF st.waits[i].state = "pending" /\ v
  THEN [st EXCEPT !.waits[i].state = "true",
                  !.resolved = Append(@, v)]
  ELSE st

\* resolve(v) of the promise of the call i; a settled promise ignores it.
resolve(st, i, v) ==
  IF st.waits[i].state = "pending"
  THEN [st EXCEPT !.waits[i].state = IF v THEN "true" ELSE "false",
                  !.resolved = Append(@, v)]
  ELSE st

\* A call that owns neither its timer nor its listener any more leaves the
\* table.
release(st, i) ==
  IF ~st.waits[i].timer /\ ~st.waits[i].listener
  THEN [st EXCEPT !.waits[i] = NoWait]
  ELSE st

\* The one-shot 'connect' listener of the ensureConnected() call i.
onConnect(st, i) ==
  LET s1 == [st EXCEPT !.waits[i].timer = FALSE]
      s2 == setIsConnecting(s1, FALSE)
      s3 == resolve(s2, i, TRUE)
      s4 == IF s3.socketRef # 0 /\ s3.socketRef = s3.waits[i].sock
            THEN [s3 EXCEPT !.waits[i].listener = FALSE]
            ELSE s3
  IN release(s4, i)

\* The 10 s timer of the ensureConnected() call i.
onTimeout(st, i) ==
  LET s1 == [st EXCEPT !.waits[i].timer = FALSE]
      s2 == setIsConnecting(s1, FALSE)
  IN release(resolve(s2, i, FALSE), i)

\* ------------------------------------------------ the transport's methods
\* Socket.disconnect() of the transport: closes it, stops its reconnection,
\* and, when it was connected, emits 'disconnect' with the local reason to
\* the 'disconnect' listener still registered.
socketDisconnect(st, s) ==
  LET wasConnected == st.sockets[s].connected
      s1 == [st EXCEPT !.sockets[s].connected = FALSE,
                       !.sockets[s].inFlight = {},
                       !.sockets[s].active = FALSE,
                       !.sockets[s].reconnecting = FALSE]
  IN IF wasConnected /\ "disconnect" \in st.sockets[s].listeners
     THEN handleDisconnect(s1, LocalReason)
     ELSE s1

\* Socket.connect() of the transport: a transport that is not connected
\* starts connecting again.
socketConnect(st, s) ==
  IF st.sockets[s].connected THEN st
  ELSE [st EXCEPT !.sockets[s].active = TRUE]

\* ------------------------------------------------------ ensureConnected
\* ensureConnected without the early return for a connected transport
ensureConnected_NoShortcut(st, i) ==
  IF st.socketRef = 0
  THEN [st EXCEPT !.resolved = Append(@, FALSE)]
  ELSE LET s1 == setIsConnecting(st, TRUE)
           s2 == IF ~s1.sockets[s1.socketRef].connected
                 THEN socketConnect(s1, s1.socketRef)
                 ELSE s1
       IN [s2 EXCEPT !.waits[i] = [state |-> "pending", sock |-> s2.socketRef,
                                    timer |-> TRUE, listener |-> TRUE]]

ensureConnected(st, i) ==
  IF refConnected(st)
  THEN [st EXCEPT !.resolved = Append(@, TRUE)]
  ELSE IF st.socketRef = 0
  THEN [st EXCEPT !.resolved = Append(@, FALSE)]
  ELSE LET s1 == setIsConnecting(st, TRUE)
           s2 == IF ~s1.sockets[s1.socketRef].connected
                 THEN socketConnect(s1, s1.socketRef)
                 ELSE s1
       IN [s2 EXCEPT !.waits[i] = [state |-> "pending", sock |-> s2.socketRef,
                                    timer |-> TRUE, listener |-> TRUE]]

\* ------------------------------------------------------------ the effect
\* The cleanup function the effect returned for the transport s.
\* cleanup that closes the transport before it removes the handlers
cleanup_DisconnectFirst(st, s) ==
  LET s1 == clearPingInterval(st)
      s2 == socketDisconnect(s1, s)
  IN [s2 EXCEPT !.sockets[s].listeners = {}, !.effectSocket = 0]

\* cleanup that does not close the transport
cleanup_NoDisconnect(st, s) ==
  LET s1 == clearPingInterval(st)
  IN [s1 EXCEPT !.sockets[s].listeners = {}, !.effectSocket = 0]

cleanup(st, s) ==
  LET s1 == clearPingInterval(st)
      s2 == [s1 EXCEPT !.sockets[s].listeners = {}]
  IN [socketDisconnect(s2, s) EXCEPT !.effectSocket = 0]

\* The body of the effect, run with userToken = t.
effectBody(st, t) ==
  IF t = "null"
  THEN LET s1 == IF st.socketRef # 0
                 THEN [socketDisconnect(st, st.socketRef)
                         EXCEPT !.socketRef = 0]
                 ELSE st
           s2 == setIsConnected(s1, FALSE)
           s3 == setIsConnecting(s2, FALSE)
           s4 == setConnectionQuality(s3, "disconnected")
       IN setOnlineStatus(s4, FALSE)
  ELSE LET s1 == setIsConnecting(st, TRUE)
           id == s1.numSockets + 1
       IN [s1 EXCEPT !.numSockets = id,
                     !.sockets[id] = [connected |-> FALSE, active |-> TRUE,
                                      reconnecting |-> FALSE,
                                      listeners |-> Handlers,
                                      inFlight |-> {}],
                     !.socketRef = id,
                     !.effectSocket = id]

\* React runs the pending cleanup, then the effect with the new token.
runEffect(st, t) ==
  effectBody(IF st.effectSocket # 0 THEN cleanup(st, st.effectSocket) ELSE st,
             t)

\* ----------------------------------------------------- event dispatch
\* The 'connect' listeners of ensureConnected() calls on transport s, run
\* in turn for the calls i..MaxCalls.
RECURSIVE runOnConnect(_, _, _)
runOnConnect(st, s, i) ==
  IF i > MaxCalls THEN st
  ELSE runOnConnect(IF st.waits[i].listener /\ st.waits[i].sock = s
                    THEN onConnect(st, i) ELSE st,
                    s, i + 1)

\* The transport s emits 'connect': handleConnect was bound first, the
\* ensureConnected() listeners after it.
emitConnect(st, s, t) ==
  LET s1 == [st EXCEPT !.sockets[s].connected = TRUE,
                       !.sockets[s].inFlight = {},
                       !.sockets[s].reconnecting = FALSE]
      s2 == IF "connect" \in s1.sockets[s].listeners
            THEN handleConnect(s1, t) ELSE s1
  IN runOnConnect(s2, s, 1)

\* ------------------------------------------------------------- actions
Pre ==
  [isConnected |-> isConnected, isConnecting |-> isConnecting,
   reconnectAttempts |-> reconnectAttempts,
   connectionQuality |-> connectionQuality,
   connected |-> refConnected(St), intervals |-> intervals,
   waiting |-> Cardinality({i \in CallIds : waits[i] # NoWait})]

Commit(r, op, reason) ==
  /\ phase' = r.phase
  /\ socketRef' = r.socketRef
  /\ effectSocket' = r.effectSocket
  /\ sockets' = r.sockets
  /\ numSockets' = r.numSockets
  /\ isConnected' = r.isConnected
  /\ isConnecting' = r.isConnecting
  /\ connectionQuality' = r.connectionQuality
  /\ reconnectAttempts' = r.reconnectAttempts
  /\ lastPingTime' = r.lastPingTime
  /\ pingIntervalRef' = r.pingIntervalRef
  /\ intervals' = r.intervals
  /\ waits' = r.waits
  /\ onlineStatus' = r.onlineStatus
  /\ last' = [op |-> op, reason |-> reason, pre |-> Pre,
              calls |-> r.calls, pings |-> r.pings,
              resolved |-> r.resolved, data |-> r.data]
  /\ UNCHANGED <<contacts, sortDone>>

InitHook ==
  /\ phase = "new"
  /\ userToken = "null"
  /\ socketRef = 0
  /\ effectSocket = 0
  /\ sockets = [s \in SocketIds |-> NoSocket]
  /\ numSockets = 0
  /\ isConnected = FALSE
  /\ isConnecting = FALSE
  /\ connectionQuality = "disconnected"
  /\ reconnectAttempts = 0
  /\ lastPingTime = 0
  /\ pingIntervalRef = "null"
  /\ intervals = 0
  /\ waits = [i \in CallIds |-> NoWait]
  /\ onlineStatus = "unset"
  /\ last = [op |-> "init", reason |-> "", pre |-> Pre,
             calls |-> <<>>, pings |-> 0, resolved |-> <<>>, data |-> -1]

Init ==
  /\ InitHook
  /\ now = 0
  /\ contacts = <<>>
  /\ sortDone = FALSE

\* The component mounts: the effect runs for the first time.
Mount(t) ==
  /\ phase = "new"
  /\ Commit(runEffect([St EXCEPT !.phase = "mounted"], t),
            IF t = "null" THEN "mount_null" ELSE "mount_token", "")
  /\ userToken' = t
  /\ UNCHANGED now

\* The userToken prop goes from null to a non-empty token.
TokenSet ==
  /\ phase = "mounted"
  /\ userToken = "null"
  /\ numSockets < MaxSockets
  /\ Commit(runEffect(St, "token"), "token_set", "")
  /\ userToken' = "token"
  /\ UNCHANGED now

\* The userToken prop changes from one non-empty token to another.
TokenChange ==
  /\ phase = "mounted"
  /\ userToken = "token"
  /\ numSockets < MaxSockets
  /\ Commit(runEffect(St, "token"), "token_change", "")
  /\ userToken' = "token"
  /\ UNCHANGED now

\* The userToken prop becomes null.
TokenClear ==
  /\ phase = "mounted"
  /\ userToken = "token"
  /\ Commit(runEffect(St, "null"), "token_clear", "")
  /\ userToken' = "null"
  /\ UNCHANGED now

\* The component unmounts: only the pending cleanup runs.
Unmount ==
  /\ phase = "mounted"
  /\ Commit([(IF effectSocket # 0 THEN cleanup(St, effectSocket) ELSE St)
               EXCEPT !.phase = "unmounted"],
            "unmount", "")
  /\ UNCHANGED <<userToken, now>>

\* The transport s emits 'connect'.
EvConnect(s) ==
  /\ sockets[s].active /\ ~sockets[s].connected
  /\ Commit(emitConnect(St, s, now), "connect", "")
  /\ UNCHANGED <<userToken, now>>

\* The transport s drops: 'disconnect' with a reason that is not local.
\* After a server-side disconnect the transport does not reconnect itself.
EvDisconnect(s, reason) ==
  /\ sockets[s].connected
  /\ reconnectAttempts < MaxCount
  /\ LET s1 == [St EXCEPT !.sockets[s].connected = FALSE,
                          !.sockets[s].inFlight = {},
                          !.sockets[s].active = (reason = "transport close"),
                          !.sockets[s].reconnecting =
                              (reason = "transport close")]
     IN Commit(IF "disconnect" \in sockets[s].listeners
               THEN handleDisconnect(s1, reason) ELSE s1,
               "disconnect", reason)
  /\ UNCHANGED <<userToken, now>>

\* A consumer of the returned `socket` closes it: Socket.disconnect().
ClientDisconnect ==
  /\ phase = "mounted"
  /\ socketRef # 0
  /\ sockets[socketRef].connected
  /\ Commit(socketDisconnect(St, socketRef), "disconnect", LocalReason)
  /\ UNCHANGED <<userToken, now>>

\* A connection attempt of the transport s fails: 'connect_error'.  The
\* transport schedules its next attempt.
EvConnectError(s) ==
  /\ sockets[s].active /\ ~sockets[s].connected
  /\ reconnectAttempts < MaxCount
  /\ LET s1 == [St EXCEPT !.sockets[s].reconnecting = TRUE]
     IN Commit(IF "connect_error" \in sockets[s].listeners
               THEN handleConnectError(s1) ELSE s1,
               "connect_error", "")
  /\ UNCHANGED <<userToken, now>>

\* The transport s starts one of its reconnection attempts.
EvReconnectAttempt(s) ==
  /\ sockets[s].active /\ ~sockets[s].connected /\ sockets[s].reconnecting
  /\ "reconnect_attempt" \in sockets[s].listeners
  /\ Commit(handleReconnectAttempt(St), "reconnect_attempt", "")
  /\ UNCHANGED <<userToken, now>>

\* A reconnection attempt of the transport s succeeded: 'reconnect' is
\* emitted when the transport is open again, ahead of the 'connect' of s.
EvReconnect(s) ==
  /\ sockets[s].active /\ ~sockets[s].connected /\ sockets[s].reconnecting
  /\ "reconnect" \in sockets[s].listeners
  /\ Commit(handleReconnect([St EXCEPT !.sockets[s].reconnecting = FALSE]),
            "reconnect", "")
  /\ UNCHANGED <<userToken, now>>

\* The server answers a ping, stamped T, on the connected transport s:
\* 'pong' with the payload {timestamp: T}.
EvPong(s) ==
  /\ sockets[s].connected
  /\ "pong" \in sockets[s].listeners
  /\ \E T \in sockets[s].inFlight :
       Commit(handlePong([St EXCEPT !.sockets[s].inFlight = @ \ {T},
                                   !.data = T],
                        now, [timestamp |-> T]),
              "pong", "")
  /\ UNCHANGED <<userToken, now>>

\* A running heartbeat interval fires.
HeartbeatTick ==
  /\ intervals > 0
  /\ Commit(sendPing(St, now), "heartbeat", "")
  /\ UNCHANGED <<userToken, now>>

\* A consumer calls the returned sendPing().
SendPing ==
  /\ phase = "mounted"
  /\ Commit(sendPing(St, now), "sendPing", "")
  /\ UNCHANGED <<userToken, now>>

\* A consumer calls ensureConnected(); a call that has to wait takes the
\* first free place i of the table.
EnsureConnected(i) ==
  /\ phase = "mounted"
  /\ waits[i] = NoWait
  /\ \A j \in CallIds : j < i => waits[j] # NoWait
  /\ Commit(ensureConnected(St, i), "ensureConnected", "")
  /\ UNCHANGED <<userToken, now>>

\* The 10 s timer of the call i expires.
Timeout(i) ==
  /\ waits[i].timer
  /\ Commit(onTimeout(St, i), "timeout", "")
  /\ UNCHANGED <<userToken, now>>

\* A consumer reads getConnectionStatus().
GetConnectionStatus ==
  /\ phase = "mounted"
  /\ Commit(St, "getConnectionStatus", "")
  /\ UNCHANGED <<userToken, now>>

\* Time passes.
Tick(d) ==
  /\ now + d <= MaxNow
  /\ now' = now + d
  /\ Commit(St, "tick", "")
  /\ UNCHANGED userToken

Next ==
  \/ \E t \in TokenValues : Mount(t)
  \/ TokenSet
  \/ TokenChange
  \/ TokenClear
  \/ Unmount
  \/ \E s \in SocketIds : EvConnect(s)
  \/ \E s \in SocketIds, r \in RemoteReasons : EvDisconnect(s, r)
  \/ ClientDisconnect
  \/ \E s \in SocketIds : EvConnectError(s)
  \/ \E s \in SocketIds : EvReconnectAttempt(s)
  \/ \E s \in SocketIds : EvReconnect(s)
  \/ \E s \in SocketIds : EvPong(s)
  \/ HeartbeatTick
  \/ SendPing
  \/ \E i \in CallIds : EnsureConnected(i)
  \/ \E i \in CallIds : Timeout(i)
  \/ GetConnectionStatus
  \/ \E d \in TickSteps : Tick(d)

Spec == Init /\ [][Next]_vars

\* The hook without the readings of the clock: every operation, handler and
\* timer of Next, with Date.now() standing still.  The passing of time shows
\* as the timers that fire.
LiveNext ==
  \/ \E t \in TokenValues : Mount(t)
  \/ TokenSet
  \/ TokenChange
  \/ TokenClear
  \/ Unmount
  \/ \E s \in SocketIds : EvConnect(s)
  \/ \E s \in SocketIds, r \in RemoteReasons : EvDisconnect(s, r)
  \/ ClientDisconnect
  \/ \E s \in SocketIds : EvConnectError(s)
  \/ \E s \in SocketIds : EvReconnectAttempt(s)
  \/ \E s \in SocketIds : EvReconnect(s)
  \/ \E s \in SocketIds : EvPong(s)
  \/ HeartbeatTick
  \/ SendPing
  \/ \E i \in CallIds : EnsureConnected(i)
  \/ \E i \in CallIds : Timeout(i)
  \/ GetConnectionStatus

\* The timer of setTimeout(..., 10000) runs its callback once its time has
\* come, whatever else happens: a timer that stays armed fires.
LiveSpec ==
  Init /\ [][LiveNext]_vars /\ \A i \in CallIds : WF_vars(Timeout(i))

\* ------------------------------------------------------- sortContacts
\* The contact sorting of the message screen, as listed in
\* src/NEW_USER_PRIORITY_FIX.md.  A contact is a record of the fields the
\* comparator reads; an absent optional field is 0 (falsy), times are in ms,
\* and name stands for the rank of (name || phoneNumber || '') under
\* localeCompare.
FiveMinutes == 5 * 60 * 1000

\* Date.now() while the list is sorted
SortNow == 10 * 60 * 1000

isRecentlyRegistered(user, t) ==
  IF user.createdAt = 0 THEN FALSE
  ELSE LET createdTime == user.createdAt
           fiveMinutesAgo == t - FiveMinutes
       IN createdTime > fiveMinutesAgo

\* the comparator given to contacts.sort
compareContacts(a, b, t) ==
  LET isNewUserA == a.isNewOnline \/ isRecentlyRegistered(a, t)
      isNewUserB == b.isNewOnline \/ isRecentlyRegistered(b, t)
      bothNew == isNewUserA /\ isNewUserB
  IN IF isNewUserA /\ ~isNewUserB THEN -1
     ELSE IF ~isNewUserA /\ isNewUserB THEN 1
     ELSE IF bothNew /\ a.isNewOnline /\ b.isNewOnline
             /\ a.onlineTimestamp # 0 /\ b.onlineTimestamp # 0
     THEN b.onlineTimestamp - a.onlineTimestamp
     ELSE IF bothNew /\ a.isNewOnline /\ ~b.isNewOnline THEN -1
     ELSE IF bothNew /\ ~a.isNewOnline /\ b.isNewOnline THEN 1
     ELSE IF bothNew /\ a.createdAt # 0 /\ b.createdAt # 0
     THEN b.createdAt - a.createdAt
     ELSE IF a.unreadCount # 0 /\ b.unreadCount = 0 THEN -1
     ELSE IF a.unreadCount = 0 /\ b.unreadCount # 0 THEN 1
     ELSE IF a.lastMessageTimestamp # 0 /\ b.lastMessageTimestamp # 0
     THEN b.lastMessageTimestamp - a.lastMessageTimestamp
     ELSE IF a.lastMessageTimestamp # 0 /\ b.lastMessageTimestamp = 0 THEN -1
     ELSE IF a.lastMessageTimestamp = 0 /\ b.lastMessageTimestamp # 0 THEN 1
     ELSE IF a.createdAt # 0 /\ b.createdAt # 0
     THEN b.createdAt - a.createdAt
     ELSE IF a.createdAt # 0 /\ b.createdAt = 0 THEN -1
     ELSE IF a.createdAt = 0 /\ b.createdAt # 0 THEN 1
     ELSE IF a.name < b.name THEN -1
     ELSE IF a.name > b.name THEN 1
     ELSE 0

\* Array.prototype.sort on a short array: a stable insertion sort.  x goes
\* behind the last element the comparator does not put after it.
RECURSIVE insertSorted(_, _, _)
insertSorted(seq, x, t) ==
  IF seq = <<>> THEN <<x>>
  ELSE IF compareContacts(seq[Len(seq)], x, t) > 0
  THEN Append(insertSorted(SubSeq(seq, 1, Len(seq) - 1), x, t), seq[Len(seq)])
  ELSE Append(seq, x)

RECURSIVE arraySort(_, _)
arraySort(seq, t) ==
  IF seq = <<>> THEN <<>>
  ELSE insertSorted(arraySort(SubSeq(seq, 1, Len(seq) - 1), t),
                    seq[Len(seq)], t)

sortContacts(list, t) == arraySort(list, t)

Contact(online, onlineTs, created, unread, lastMsg, name) ==
  [isNewOnline |-> online, onlineTimestamp |-> onlineTs,
   createdAt |-> created, unreadCount |-> unread,
   lastMessageTimestamp |-> lastMsg, name |-> name]

\* The contacts the lists are made of; with SortNow = 600000 a createdAt of
\* 540000 or 570000 is within the last five minutes, 100000 is not.
SampleContacts ==
  { Contact(TRUE, 590000, 0, 0, 0, 1),
    Contact(TRUE, 0, 540000, 2, 0, 2),
    Contact(TRUE, 580000, 570000, 0, 0, 3),
    Contact(FALSE, 0, 540000, 0, 0, 4),
    Contact(FALSE, 0, 570000, 1, 0, 5),
    Contact(FALSE, 0, 100000, 3, 400000, 6),
    Contact(FALSE, 0, 100000, 0, 500000, 7),
    Contact(FALSE, 0, 0, 0, 0, 8) }

\* A user enters the contact list.
AddContact(u) ==
  /\ Len(contacts) < MaxContacts
  /\ contacts' = Append(contacts, u)
  /\ sortDone' = FALSE
  /\ UNCHANGED <<phase, userToken, socketRef, effectSocket, sockets,
                 numSockets, isConnected, isConnecting, connectionQuality,
                 reconnectAttempts, lastPingTime, pingIntervalRef, intervals,
                 waits, onlineStatus, now, last>>

\* The screen sorts its list: contacts.sort sorts in place.
SortContacts ==
  /\ contacts' = sortContacts(contacts, now)
  /\ sortDone' = TRUE
  /\ UNCHANGED <<phase, userToken, socketRef, effectSocket, sockets,
                 numSockets, isConnected, isConnecting, connectionQuality,
                 reconnectAttempts, lastPingTime, pingIntervalRef, intervals,
                 waits, onlineStatus, now, last>>

SortInit ==
  /\ InitHook
  /\ now = SortNow
  /\ contacts = <<>>
  /\ sortDone = FALSE

SortNext ==
  \/ \E u \in SampleContacts : AddContact(u)
  \/ SortContacts

SortSpec == SortInit /\ [][SortNext]_vars

TypeOK ==
  /\ phase \in {"new", "mounted", "unmounted"}
  /\ contacts \in Seq(SampleContacts) /\ Len(contacts) <= MaxContacts
  /\ sortDone \in BOOLEAN
  /\ userToken \in TokenValues
  /\ socketRef \in {0} \cup SocketIds
  /\ isConnected \in BOOLEAN /\ isConnecting \in BOOLEAN
  /\ connectionQuality \in {"good", "poor", "disconnected"}
  /\ reconnectAttempts \in 0..(MaxCount + 1)
  /\ intervals \in 0..1

\* ===================================================== the claims
TransportEvents == {"connect", "disconnect", "connect_error", "reconnect",
                    "reconnect_attempt", "pong"}

\* C1: whenever isConnected is false, connectionQuality is 'disconnected'.
C1_QualityDisconnectedUnlessConnected ==
  ~isConnected => connectionQuality = "disconnected"

\* a 'disconnect' has just taken the manager out of Connected
C1_Witness ==
  /\ last.op = "disconnect" /\ last.pre.isConnected
  /\ ~isConnected /\ connectionQuality = "disconnected"

\* C2: the timeout of an ensureConnected() wait resolves it false, and a
\* wait that has settled, by 'connect' or by its timeout, has removed the
\* 'connect' listener it installed.
C2_ListenerRemovedOnSettle ==
  /\ (last.op = "timeout") => (last.resolved = <<FALSE>>)
  /\ \A i \in CallIds :
       (waits[i].state \in {"true", "false"}) => ~waits[i].listener

\* C3: while the hook is mounted, a heartbeat interval is registered if and
\* only if isConnected is true.
C3_HeartbeatIffConnected ==
  (phase = "mounted") => ((intervals > 0) <=> isConnected)

\* C4: a step that connects the session's transport calls
\* setOnlineStatus(true) in that step, and a step after which the session's
\* transport is no longer connected (a disconnect, or the destruction of
\* the session) calls setOnlineStatus(false) in that step.
C4_PresenceNotifiedOnTransition ==
  /\ (~last.pre.connected /\ refConnected(St))
       => (\E k \in 1..Len(last.calls) : last.calls[k] = TRUE)
  /\ (last.pre.connected /\ ~refConnected(St))
       => (\E k \in 1..Len(last.calls) : last.calls[k] = FALSE)

\* C5: a transport that has been torn down carries no listener of the
\* manager, the listener and the timer of a pending ensureConnected()
\* included, and a timer of a torn-down session does not change
\* isConnecting.
C5_NothingLeftAfterTeardown ==
  \A s \in SocketIds :
    (s <= numSockets /\ s # effectSocket) =>
      /\ sockets[s].listeners = {}
      /\ ~sockets[s].connected
      /\ \A i \in CallIds :
           waits[i].sock = s => ~waits[i].listener /\ ~waits[i].timer

\* C6: reconnectAttempts never exceeds maxReconnectAttempts.
C6_CountAtMostMax ==
  reconnectAttempts <= maxReconnectAttempts

\* C7 as claimed: a connect_error received while Connecting increments the
\* count by one and leaves isConnecting true.
C7_ConnectErrorStaysConnecting ==
  (last.op = "connect_error" /\ ~last.pre.isConnected
     /\ last.pre.isConnecting)
    => /\ reconnectAttempts = last.pre.reconnectAttempts + 1
       /\ isConnecting

\* C7 as amended: a connect_error received while Connecting increments the
\* count by one and makes the state Disconnected (isConnected and
\* isConnecting both false).
C7_ConnectErrorStopsConnecting ==
  (last.op = "connect_error" /\ ~last.pre.isConnected
     /\ last.pre.isConnecting)
    => /\ reconnectAttempts = last.pre.reconnectAttempts + 1
       /\ ~isConnecting /\ ~isConnected

\* a connect_error has arrived in the Connecting state
C7_Witness ==
  /\ last.op = "connect_error"
  /\ ~last.pre.isConnected /\ last.pre.isConnecting
  /\ reconnectAttempts = last.pre.reconnectAttempts + 1
  /\ ~isConnecting

\* C8: the step in which the count reaches maxReconnectAttempts ends in
\* isConnected=false, isConnecting=false, quality 'disconnected', presence
\* offline; and from then on no transport event other than 'connect' turns
\* isConnecting from false to true.
C8_TerminalAfterMaxAttempts ==
  /\ (last.pre.reconnectAttempts < maxReconnectAttempts
        /\ reconnectAttempts >= maxReconnectAttempts)
       => /\ ~isConnected /\ ~isConnecting
          /\ connectionQuality = "disconnected"
          /\ onlineStatus = FALSE
  /\ (last.pre.reconnectAttempts >= maxReconnectAttempts
        /\ last.op \in TransportEvents \ {"connect"}
        /\ ~last.pre.isConnecting)
       => ~isConnecting

\* C9: a 'disconnect' received while Connected leaves isConnected false;
\* with the local reason isConnecting is false and the count unchanged,
\* with any other reason the count is one more and isConnecting is true
\* exactly when the new count is below maxReconnectAttempts.
C9_DisconnectFromConnected ==
  (last.op = "disconnect" /\ last.pre.isConnected) =>
    /\ ~isConnected
    /\ IF last.reason = LocalReason
       THEN /\ ~isConnecting
            /\ reconnectAttempts = last.pre.reconnectAttempts
       ELSE /\ reconnectAttempts = last.pre.reconnectAttempts + 1
            /\ isConnecting = (reconnectAttempts < maxReconnectAttempts)

\* a local disconnect has been received while Connected
C9_Witness ==
  /\ last.op = "disconnect" /\ last.reason = LocalReason
  /\ last.pre.isConnected /\ last.pre.connected
  /\ ~isConnected /\ ~isConnecting

\* C10: the count is one more after a non-local disconnect and after a
\* connect_error, 0 after a connect, and unchanged after anything else.
C10_CountFrame ==
  IF last.op = "connect" THEN reconnectAttempts = 0
  ELSE IF last.op = "connect_error"
          \/ (last.op = "disconnect" /\ last.reason # LocalReason)
  THEN reconnectAttempts = last.pre.reconnectAttempts + 1
  ELSE reconnectAttempts = last.pre.reconnectAttempts

\* a connect has reset a count that was not 0
C10_Witness ==
  /\ last.op = "connect" /\ last.pre.reconnectAttempts > 0
  /\ reconnectAttempts = 0

\* C11: a 'connect' of the manager's transport resolves every pending
\* ensureConnected() wait true; the timeout of a wait resolves it false; a
\* call with a transport that is not connected starts a connect attempt and
\* waits; a call with no transport resolves false and changes nothing.
C11_EnsureConnectedOutcome ==
  /\ (last.op = "connect" /\ refConnected(St))
       => \A i \in CallIds : waits[i].state # "pending"
  /\ (last.op = "timeout") => (last.resolved = <<FALSE>>)
  /\ (last.op = "ensureConnected" /\ socketRef # 0 /\ ~last.pre.connected)
       => /\ sockets[socketRef].active
          /\ last.resolved = <<>>
          /\ \E i \in CallIds : waits[i].state = "pending"
  /\ (last.op = "ensureConnected" /\ socketRef = 0)
       => /\ last.resolved = <<FALSE>>
          /\ isConnecting = last.pre.isConnecting
          /\ isConnected = last.pre.isConnected
          /\ connectionQuality = last.pre.connectionQuality
          /\ reconnectAttempts = last.pre.reconnectAttempts
          /\ Cardinality({i \in CallIds : waits[i] # NoWait})
               = last.pre.waiting

\* C12: ensureConnected() called while the transport is connected resolves
\* true at once, takes no timer and no listener, and leaves isConnected,
\* isConnecting, connectionQuality and reconnectAttempts as they were.
C12_EnsureConnectedWhenConnected ==
  (last.op = "ensureConnected" /\ last.pre.connected) =>
    /\ last.resolved = <<TRUE>>
    /\ Cardinality({i \in CallIds : waits[i] # NoWait}) = last.pre.waiting
    /\ isConnected = last.pre.isConnected
    /\ isConnecting = last.pre.isConnecting
    /\ connectionQuality = last.pre.connectionQuality
    /\ reconnectAttempts = last.pre.reconnectAttempts

\* ensureConnected() has been called on a connected transport
C12_Witness ==
  /\ last.op = "ensureConnected" /\ last.pre.connected
  /\ last.resolved = <<TRUE>> /\ \A i \in CallIds : waits[i] = NoWait

\* C13: after the token is cleared while Connected no heartbeat interval
\* runs, no transport is connected or connecting, socketRef is null, the
\* state is Disconnected with quality 'disconnected', and the presence
\* store has been called exactly once in that step, with false.
C13_TokenClearedWhileConnected ==
  (last.op = "token_clear" /\ last.pre.connected /\ last.pre.isConnected) =>
    /\ intervals = 0
    /\ socketRef = 0
    /\ \A s \in SocketIds : ~sockets[s].connected /\ ~sockets[s].active
    /\ ~isConnected /\ ~isConnecting
    /\ connectionQuality = "disconnected"
    /\ last.calls = <<FALSE>>

\* the token has been cleared in the Connected state, heartbeat running
C13_Witness ==
  /\ last.op = "token_clear"
  /\ last.pre.connected /\ last.pre.isConnected /\ last.pre.intervals = 1
  /\ intervals = 0 /\ onlineStatus = FALSE

\* a transport that is connected, connecting or reconnecting
IsOpen(s) == sockets[s].connected \/ sockets[s].active

\* C14: at most one transport is open; a transport that is not the one of
\* the current effect is closed and has no handler bound; with no token
\* there is no transport.
C14_OneOpenTransport ==
  /\ Cardinality({s \in SocketIds : IsOpen(s)}) <= 1
  /\ \A s \in SocketIds :
       (s # effectSocket) => ~IsOpen(s) /\ sockets[s].listeners = {}
  /\ (phase = "mounted" /\ userToken = "null")
       => socketRef = 0 /\ effectSocket = 0

\* the token changed while the first transport was connected
C14_Witness ==
  /\ last.op = "token_change" /\ last.pre.connected
  /\ numSockets = 2 /\ ~IsOpen(1) /\ IsOpen(2) /\ socketRef = 2

\* C15: after every 'connect' event isConnected is true, isConnecting
\* false, quality 'good', the count 0, the presence store has been called
\* once with true, one ping has been emitted, and exactly one heartbeat
\* interval runs.
C15_AfterConnect ==
  (last.op = "connect") =>
    /\ isConnected /\ ~isConnecting
    /\ connectionQuality = "good"
    /\ reconnectAttempts = 0
    /\ last.calls = <<TRUE>> /\ onlineStatus = TRUE
    /\ last.pings = 1 /\ lastPingTime = now
    /\ intervals = 1 /\ pingIntervalRef = "live"

\* a 'connect' has arrived after a dropped connection
C15_Witness ==
  /\ last.op = "connect" /\ ~last.pre.isConnected
  /\ last.pre.reconnectAttempts > 0 /\ last.pre.intervals = 0
  /\ isConnected /\ intervals = 1 /\ last.pings = 1

\* C16: a pong received while Connected sets the quality from
\* now - lastPingTime ('good' below 500, 'poor' below 2000, 'disconnected'
\* from 2000 on) and changes nothing else: isConnected stays true, the
\* transport stays connected, the interval keeps running, and the presence
\* store is not called.
C16_QualityFromElapsed ==
  (last.op = "pong" /\ last.pre.isConnected) =>
    LET elapsed == now - lastPingTime
    IN /\ connectionQuality =
            (IF elapsed < 500 THEN "good"
             ELSE IF elapsed < 2000 THEN "poor" ELSE "disconnected")
       /\ isConnected /\ refConnected(St)
       /\ isConnecting = last.pre.isConnecting
       /\ intervals = last.pre.intervals /\ intervals = 1
       /\ last.calls = <<>>

\* a pong has arrived 2000 ms after the last ping
C16_Witness ==
  /\ last.op = "pong" /\ last.pre.isConnected
  /\ now - lastPingTime = 2000
  /\ connectionQuality = "disconnected" /\ isConnected /\ intervals = 1

\* C18: after a connect_error isConnected and isConnecting are false, the
\* quality is 'disconnected', and the presence store has been called once
\* in that step, with false.
C18_ConnectErrorIntoDisconnected ==
  (last.op = "connect_error") =>
    /\ ~isConnected /\ ~isConnecting
    /\ connectionQuality = "disconnected"
    /\ last.calls = <<FALSE>> /\ onlineStatus = FALSE

\* a connect_error has arrived while isConnected was still true
C18_Witness ==
  /\ last.op = "connect_error" /\ last.pre.isConnected
  /\ ~isConnected /\ onlineStatus = FALSE

\* C17: a pong received while Connected whose payload timestamp T is
\* 700 ms old sets the quality to 'poor'.
C17_PoorAt700 ==
  (last.op = "pong" /\ last.pre.isConnected /\ now - last.data = 700)
    => connectionQuality = "poor"

\* a new user for the sorting: online by socket, or registered recently
IsNewUser(u) == u.isNewOnline \/ isRecentlyRegistered(u, now)

\* C19: in a sorted list every new user precedes every user that is not
\* new; among the new users those with isNewOnline precede the others;
\* isNewOnline users come by onlineTimestamp, newest first, the other new
\* users by createdAt, newest first; among the users that are not new those
\* with unread messages precede those without.
C19_SortedByPriority ==
  sortDone =>
    \A i, j \in 1..Len(contacts) :
      (i < j) =>
        LET a == contacts[i]
            b == contacts[j]
        IN /\ ~(~IsNewUser(a) /\ IsNewUser(b))
           /\ ~(IsNewUser(a) /\ ~a.isNewOnline /\ b.isNewOnline)
           /\ (a.isNewOnline /\ b.isNewOnline
                 /\ a.onlineTimestamp # 0 /\ b.onlineTimestamp # 0)
                => a.onlineTimestamp >= b.onlineTimestamp
           /\ (IsNewUser(a) /\ IsNewUser(b)
                 /\ ~a.isNewOnline /\ ~b.isNewOnline)
                => a.createdAt >= b.createdAt
           /\ (~IsNewUser(a) /\ ~IsNewUser(b))
                => ~(a.unreadCount = 0 /\ b.unreadCount > 0)

\* ------------------------------------------------- the hook's return value
\* What useSocket returns to its caller: the object literal at the end of
\* the hook.  The interface UseSocketReturn also declares sendMessage,
\* joinConversation and leaveConversation; the object has none of them.
useSocketReturn ==
  [socket |-> socketRef,
   isConnected |-> isConnected,
   isConnecting |-> isConnecting,
   connectionQuality |-> connectionQuality,
   ensureConnected |-> "function",
   getConnectionStatus |-> "function",
   sendPing |-> "function"]

\* C20: the manager exposes sendMessage(payload): a mounted hook's return
\* value has a sendMessage member the caller can invoke.
C20_SendMessageExposed ==
  (phase = "mounted") => "sendMessage" \in DOMAIN useSocketReturn

\* C21: the exposed isConnected flag is true only while the manager's
\* current transport exists and is connected.
C21_IsConnectedMeansTransportConnected ==
  isConnected => refConnected(St)

\* C22: isConnected and isConnecting are never both true.
C22_FlagsExclusive ==
  ~(isConnected /\ isConnecting)

\* C23: every setOnlineStatus(true) happens in a step after which isConnected
\* is true, and the last value a step sends to the presence store equals
\* isConnected after the step.
C23_PresenceEqualsIsConnected ==
  /\ (\E k \in 1..Len(last.calls) : last.calls[k] = TRUE) => isConnected
  /\ (last.calls # <<>>) => (last.calls[Len(last.calls)] = isConnected)

\* C24: every ensureConnected() call settles with true or false within its
\* 10 s: a pending call always owns its armed 10 s timer, whatever connect,
\* disconnect, connect_error, token change, token clear or unmount happens
\* meanwhile, and a pending call eventually is not pending any more.
C24_EveryCallSettles ==
  /\ [](\A i \in CallIds : (waits[i].state = "pending") => waits[i].timer)
  /\ \A i \in CallIds :
       (waits[i].state = "pending") ~> (waits[i].state # "pending")

\* a call that was pending across an unmount is settled false by its timer
C24_Witness ==
  /\ last.op = "timeout" /\ last.resolved = <<FALSE>>
  /\ phase = "unmounted"

sign(n) == IF n < 0 THEN -1 ELSE IF n > 0 THEN 1 ELSE 0

\* C25: the comparator of sortContacts is a consistent ordering of the
\* contacts of a list: sign(cmp(a, b)) = -sign(cmp(b, a)), and cmp(a, b) < 0
\* with cmp(b, c) < 0 gives cmp(a, c) < 0.
C25_ComparatorConsistent ==
  \A i, j, k \in 1..Len(contacts) :
    LET a == contacts[i]
        b == contacts[j]
        c == contacts[k]
    IN /\ sign(compareContacts(a, b, now)) = -sign(compareContacts(b, a, now))
       /\ (compareContacts(a, b, now) < 0 /\ compareContacts(b, c, now) < 0)
            => compareContacts(a, c, now) < 0

====
